---- MODULE Spec2Model ----
(***************************************************************************)
(* A model of cityam_blog_extractor.py: the CityAMExtractor class, its     *)
(* text sanitizer, article selection, renderer, file writers and the       *)
(* run_daily_extraction orchestrator.                                      *)
(*                                                                         *)
(* Text is a sequence of one-character strings.  A Python value that may   *)
(* be None (or a missing dictionary key) is an optional: None or Some(v).  *)
(* A path or a file name is a sequence of string tokens in which "/" is a  *)
(* token of its own.  A file's content is a sequence of lines (records).   *)
(***************************************************************************)
EXTENDS Integers, Sequences, FiniteSets, TLC

VARIABLES
    mode,        \* which harness is running: "clean", "select", "run", "extract", "save"
    phase,       \* pure-function harnesses: "input" before the call, "done" after
    text,        \* clean_html harness: the argument (an optional text)
    cleaned,     \* clean_html harness: the value returned
    feed,        \* selection harness: the parsed feed handed to extract_articles
    max_articles,\* selection harness: the max_articles argument
    result,      \* selection harness: what extract_articles returned
    now,         \* the current local day (a day number, see DateOf)
    files,       \* the summaries directory: path -> content of each file in it
    index,       \* README.md: None when absent, else Some(content)
    pc,          \* "idle", or where run_daily_extraction stands
    feed_data,   \* run_daily_extraction's local feed_data
    blog_content,\* run_daily_extraction's local blog_content
    filename,    \* run_daily_extraction's local filename
    exit_code,   \* the exit code of the last run: None while it runs
    stdout,      \* the markers the current or last run printed
    steps,       \* the methods the current or last run has called, in order
    fs0,         \* files and index as they were when the run started
    last_extract,\* the extract_articles call just made and its outcome
    last_save,   \* the last save_blog_post call and its outcome
    prev_save,   \* the save_blog_post call before that
    last_index,  \* the update_index call just made and its outcome
    ops          \* how many runs or direct calls have been started

pureVars == <<phase, text, cleaned, feed, max_articles, result>>

sysVars == <<now, files, index, pc, feed_data, blog_content, filename,
             exit_code, stdout, steps, fs0, last_extract, last_save,
             prev_save, last_index, ops>>

None == [some |-> FALSE]
Some(v) == [some |-> TRUE, v |-> v]

Min(S) == CHOOSE x \in S : \A y \in S : x <= y
Max(S) == CHOOSE x \in S : \A y \in S : x >= y

RECURSIVE Concat(_)
Concat(ss) == IF ss = <<>> THEN <<>> ELSE Head(ss) \o Concat(Tail(ss))

(***************************************************************************)
(* clean_html, lines 33-45                                                 *)
(***************************************************************************)

\* The end of the match of the pattern '<.*?>' that starts at s[i] = "<": the
\* nearest ">" after i with no newline in between ('.' does not match "\n",
\* the pattern is compiled without DOTALL); 0 when there is no match at i.
TagEnd(s, i) ==
    LET ends == {j \in (i + 1)..Len(s) :
                    /\ s[j] = ">"
                    /\ \A k \in (i + 1)..(j - 1) : s[k] # "\n"}
    IN  IF ends = {} THEN 0 ELSE Min(ends)

\* re.sub(clean, '', text) from position i on: the leftmost match at or
\* after i is deleted and the scan goes on behind it (matches do not
\* overlap); every other character is kept.
RECURSIVE StripTagsFrom(_, _)
StripTagsFrom(s, i) ==
    LET starts == {p \in i..Len(s) : s[p] = "<" /\ TagEnd(s, p) # 0}
    IN  IF starts = {} THEN SubSeq(s, i, Len(s))
        ELSE SubSeq(s, i, Min(starts) - 1)
                 \o StripTagsFrom(s, TagEnd(s, Min(starts)) + 1)

StripTags(s) == StripTagsFrom(s, 1)

\* The named character references of html.entities.html5 that the model's
\* texts can spell (each exists with and without the closing semicolon).
Html5 ==
    (<<"l", "t", ";">> :> "<") @@ (<<"l", "t">> :> "<") @@
    (<<"g", "t", ";">> :> ">") @@ (<<"g", "t">> :> ">") @@
    (<<"a", "m", "p", ";">> :> "&") @@ (<<"a", "m", "p">> :> "&")

\* Characters that end a reference name in html.unescape's pattern
\* &(#[0-9]+;?|#[xX][0-9a-fA-F]+;?|[^\t\n\f <&#;]{1,32};?)
NameStop == {"\t", "\n", "\f", " ", "<", "&", "#", ";"}
MaxNameLen == 32

\* The length of the reference matched after the "&" at s[i]: the longest run
\* of name characters (at most 32), then a ";" when one follows; 0 = no match.
RefLen(s, i) ==
    LET runs == {n \in 0..MaxNameLen :
                    /\ i + n <= Len(s)
                    /\ \A k \in (i + 1)..(i + n) : s[k] \notin NameStop}
        n == Max(runs)
    IN  IF n = 0 THEN 0
        ELSE IF i + n + 1 <= Len(s) /\ s[i + n + 1] = ";" THEN n + 1 ELSE n

\* html._replace_charref for a named reference r (the text after "&"): the
\* table entry, else the longest proper prefix of two or more characters that
\* is in the table followed by the rest, else the reference unchanged.
ReplaceCharref(r) ==
    IF r \in DOMAIN Html5 THEN <<Html5[r]>>
    ELSE LET xs == {x \in 2..(Len(r) - 1) : SubSeq(r, 1, x) \in DOMAIN Html5}
         IN  IF xs = {} THEN <<"&">> \o r
             ELSE <<Html5[SubSeq(r, 1, Max(xs))]>> \o SubSeq(r, Max(xs) + 1, Len(r))

\* html.unescape from position i on: one left-to-right pass over the
\* references; what a replacement produces is not scanned again.
RECURSIVE UnescapeFrom(_, _)
UnescapeFrom(s, i) ==
    LET refs == {p \in i..Len(s) : s[p] = "&" /\ RefLen(s, p) # 0}
        p == Min(refs)
    IN  IF refs = {} THEN SubSeq(s, i, Len(s))
        ELSE SubSeq(s, i, p - 1)
                 \o ReplaceCharref(SubSeq(s, p + 1, p + RefLen(s, p)))
                 \o UnescapeFrom(s, p + RefLen(s, p) + 1)

Unescape(s) == UnescapeFrom(s, 1)

\* str.split() separators among the model's characters.
Whitespace == {" ", "\n", "\t", "\f"}

\* ' '.join(text.split()) from position i on: the next word (a maximal run
\* of non-whitespace characters) and then the rest; started says whether a
\* word has already been emitted (so the next one is preceded by one space).
RECURSIVE JoinSplitFrom(_, _, _)
JoinSplitFrom(s, i, started) ==
    LET inWords == {p \in i..Len(s) : s[p] \notin Whitespace}
        b == Min(inWords)
        gaps == {p \in b..Len(s) : s[p] \in Whitespace}
        e == IF gaps = {} THEN Len(s) ELSE Min(gaps) - 1
    IN  IF inWords = {} THEN <<>>
        ELSE (IF started THEN <<" ">> ELSE <<>>)
                 \o SubSeq(s, b, e) \o JoinSplitFrom(s, e + 1, TRUE)

JoinSplit(s) == JoinSplitFrom(s, 1, FALSE)

\* clean_html(text): "" for a falsy argument (None or the empty string),
\* else tags removed, then entities decoded, then whitespace collapsed.
clean_html(t) ==
    IF ~t.some \/ t.v = <<>> THEN <<>>
    ELSE JoinSplit(Unescape(StripTags(t.v)))

\* The system variables while a pure-function harness runs: nothing on disk,
\* no run, no call.
SysIdle ==
    /\ now = 1
    /\ files = <<>>
    /\ index = None
    /\ pc = "idle"
    /\ feed_data = None
    /\ blog_content = <<>>
    /\ filename = None
    /\ exit_code = None
    /\ stdout = <<>>
    /\ steps = <<>>
    /\ fs0 = <<files, index>>
    /\ last_extract = None
    /\ last_save = None
    /\ prev_save = None
    /\ last_index = None
    /\ ops = 0

(***************************************************************************)
(* Harness for clean_html: the argument is None or a concatenation of at    *)
(* most MaxFragments fragments.                                             *)
(***************************************************************************)
MaxFragments == 3

Fragments ==
    { <<"<">>, <<">">>, <<"b">>, <<" ">>, <<"\n">>,
      <<"&", "l", "t", ";">>, <<"&", "g", "t", ";">>, <<"&", "a", "m", "p", ";">>,
      <<"a", "m", "p", ";">>, <<"&", "l", "t">> }

FragmentSeqs == UNION {[1..n -> Fragments] : n \in 0..MaxFragments}

CleanInputs == {None} \cup {Some(Concat(fs)) : fs \in FragmentSeqs}

InitClean ==
    /\ mode = "clean"
    /\ phase = "input"
    /\ text \in CleanInputs
    /\ cleaned = <<>>
    /\ feed = None
    /\ max_articles = 0
    /\ result = None
    /\ SysIdle

CallCleanHtml ==
    /\ mode = "clean"
    /\ phase = "input"
    /\ cleaned' = clean_html(text)
    /\ phase' = "done"
    /\ UNCHANGED <<mode, text, feed, max_articles, result, sysVars>>

NextClean == CallCleanHtml

(***************************************************************************)
(* extract_articles, lines 47-95                                           *)
(***************************************************************************)

\* A one-line Python string literal as text.
NoTitle == <<"N", "o", " ", "t", "i", "t", "l", "e">>
CityAM == <<"C", "i", "t", "y", " ", "A", ".", "M", ".">>
CityAMNews == CityAM \o <<" ", "N", "e", "w", "s">>
Ellipsis == <<".", ".", ".">>

\* self.rss_feeds, lines 18-21: the configured feed map.
rss_feeds ==
    [news |-> "https://www.cityam.com/news/rss",
     business |-> "https://www.cityam.com/news/feed"]

\* A variant that falls back to the news feed for a label it does not know.
FeedUrlWithFallback(feed_name) ==
    IF feed_name \in DOMAIN rss_feeds THEN Some(rss_feeds[feed_name])
    ELSE Some(rss_feeds["news"])

\* dict.get(key): None for a label that is no key of the map.
FeedUrl(feed_name) ==
    IF feed_name \in DOMAIN rss_feeds THEN Some(rss_feeds[feed_name]) ELSE None

\* dict.get(key, default) on an entry whose missing keys are None.
Get(opt, default) == IF opt.some THEN opt.v ELSE default

SummaryLimit == 300
SummaryKeep == 297

\* A variant that keeps 300 characters before the ellipsis.
LimitSummaryKeepsLimit(summary) ==
    IF Len(summary) > SummaryLimit
    THEN SubSeq(summary, 1, SummaryLimit) \o Ellipsis
    ELSE summary

\* Lines 71-72: a summary longer than 300 characters is cut to 297 + '...'.
LimitSummary(summary) ==
    IF Len(summary) > SummaryLimit
    THEN SubSeq(summary, 1, SummaryKeep) \o Ellipsis
    ELSE summary

\* Lines 67-81: the article built from one feed entry.
Article(entry) ==
    [title |-> clean_html(Some(Get(entry.title, NoTitle))),
     link |-> Get(entry.link, <<>>),
     summary |-> LimitSummary(
         clean_html(Some(Get(entry.summary, Get(entry.description, <<>>))))),
     published |-> Get(entry.published, <<>>),
     author |-> Get(entry.author, CityAM),
     categories |-> Get(entry.tags, <<>>)]

\* feed.entries[:max_articles], a Python slice: the first n entries for
\* n >= 0, all but the last -n for n < 0.
Slice(entries, n) ==
    LET stop == IF n >= 0 THEN Min({n, Len(entries)})
                ELSE Max({Len(entries) + n, 0})
    IN  SubSeq(entries, 1, stop)

\* Lines 64-82: one article per entry of the slice, in the slice's order.
Articles(entries, n) ==
    LET taken == Slice(entries, n)
    IN  [i \in 1..Len(taken) |-> Article(taken[i])]

\* Lines 86-91: the dictionary returned for a feed with entries.
FeedData(parsed, n) ==
    [feed_title |-> Get(parsed.title, CityAMNews),
     feed_description |-> Get(parsed.description, <<>>),
     last_updated |-> Get(parsed.updated, <<>>),
     articles |-> Articles(parsed.entries, n)]

\* A variant without the check for an empty feed (lines 60-62).
extract_articles_no_empty_check(feed_name, n, net) ==
    IF ~FeedUrl(feed_name).some
    THEN [raised |-> "ValueError", ret |-> None, fetched |-> FALSE,
          printed |-> <<>>]
    ELSE IF net.raises
    THEN [raised |-> "none", ret |-> None, fetched |-> TRUE,
          printed |-> <<"Fetching", "Error extracting">>]
    ELSE [raised |-> "none", ret |-> Some(FeedData(net, n)), fetched |-> TRUE,
          printed |-> <<"Fetching">>
                        \o (IF net.bozo THEN <<"Warning">> ELSE <<>>)
                        \o <<"Successfully extracted">>]

\* A variant without the try block: what feedparser.parse raises leaves the
\* method.
extract_articles_no_try(feed_name, n, net) ==
    IF ~FeedUrl(feed_name).some
    THEN [raised |-> "ValueError", ret |-> None, fetched |-> FALSE,
          printed |-> <<>>]
    ELSE IF net.raises
    THEN [raised |-> "Exception", ret |-> None, fetched |-> TRUE,
          printed |-> <<"Fetching">>]
    ELSE IF net.entries = <<>>
    THEN [raised |-> "none", ret |-> None, fetched |-> TRUE,
          printed |-> <<"Fetching">>
                        \o (IF net.bozo THEN <<"Warning">> ELSE <<>>)
                        \o <<"No articles found">>]
    ELSE [raised |-> "none", ret |-> Some(FeedData(net, n)), fetched |-> TRUE,
          printed |-> <<"Fetching">>
                        \o (IF net.bozo THEN <<"Warning">> ELSE <<>>)
                        \o <<"Successfully extracted">>]

\* extract_articles(feed_name, max_articles) when feedparser.parse answers
\* net: an exception (net.raises) or a parsed feed.  The outcome names the
\* exception that leaves the method (raised), the value returned (ret),
\* whether feedparser.parse was called (fetched) and what was printed.
extract_articles(feed_name, n, net) ==
    IF ~FeedUrl(feed_name).some
    THEN [raised |-> "ValueError", ret |-> None, fetched |-> FALSE,
          printed |-> <<>>]
    ELSE IF net.raises
    THEN [raised |-> "none", ret |-> None, fetched |-> TRUE,
          printed |-> <<"Fetching", "Error extracting">>]
    ELSE IF net.entries = <<>>
    THEN [raised |-> "none", ret |-> None, fetched |-> TRUE,
          printed |-> <<"Fetching">>
                        \o (IF net.bozo THEN <<"Warning">> ELSE <<>>)
                        \o <<"No articles found">>]
    ELSE [raised |-> "none", ret |-> Some(FeedData(net, n)), fetched |-> TRUE,
          printed |-> <<"Fetching">>
                        \o (IF net.bozo THEN <<"Warning">> ELSE <<>>)
                        \o <<"Successfully extracted">>]

(***************************************************************************)
(* Harness for the article selection: a parsed feed of at most MaxEntries  *)
(* entries and a maximum of 1..MaxArticles.                                *)
(***************************************************************************)
MaxEntries == 3
MaxArticles == 4

Rep(c, n) == [i \in 1..n |-> c]

Entry(title, summary, description) ==
    [title |-> title, summary |-> summary, description |-> description,
     link |-> None, published |-> None, author |-> None, tags |-> None]

\* Entries with distinct titles whose sanitized summaries are shorter than,
\* equal to and longer than the limit.
EntryChoices ==
    { Entry(Some(<<"A">>), Some(Rep("x", SummaryLimit)), None),
      Entry(Some(<<"<", "i", ">", "B">>),
            Some(<<"<", "p", ">">> \o Rep("y", SummaryLimit + 1)), None),
      Entry(Some(<<"C">>), None,
            Some(Rep("z", SummaryKeep - 1) \o <<" ">> \o Rep("w", SummaryLimit))),
      Entry(None, Some(Rep("v", SummaryLimit - 2) \o <<"&", "a", "m", "p", ";">>),
            Some(Rep("u", SummaryLimit + 5))),
      Entry(Some(<<"E">>), None, None) }

ParsedFeed(bozo, entries) ==
    [raises |-> FALSE, bozo |-> bozo, entries |-> entries,
     title |-> None, description |-> None, updated |-> None]

NetError ==
    [raises |-> TRUE, bozo |-> FALSE, entries |-> <<>>,
     title |-> None, description |-> None, updated |-> None]

SelectFeeds ==
    {ParsedFeed(FALSE, es) :
        es \in UNION {[1..k -> EntryChoices] : k \in 0..MaxEntries}}

InitSelect ==
    /\ mode = "select"
    /\ phase = "input"
    /\ feed \in SelectFeeds
    /\ max_articles \in 1..MaxArticles
    /\ result = None
    /\ text = None
    /\ cleaned = <<>>
    /\ SysIdle

CallExtractArticles ==
    /\ mode = "select"
    /\ phase = "input"
    /\ result' = extract_articles("news", max_articles, feed).ret
    /\ phase' = "done"
    /\ UNCHANGED <<mode, text, cleaned, feed, max_articles, sysVars>>

NextSelect == CallExtractArticles

(***************************************************************************)
(* Dates: datetime.now() and its strftime formats                          *)
(***************************************************************************)

\* The local date of day number n: days 1, 2, 3, ... are 2025-12-31,
\* 2026-01-01, 2026-01-02, ...
DateOf(n) ==
    IF n <= 1 THEN [y |-> 2025, m |-> 12, d |-> 30 + n]
    ELSE [y |-> 2026, m |-> 1, d |-> n - 1]

Digit(n) == <<"0", "1", "2", "3", "4", "5", "6", "7", "8", "9">>[n + 1]
TwoDigits(n) == <<Digit(n \div 10), Digit(n % 10)>>
FourDigits(n) == TwoDigits(n \div 100) \o TwoDigits(n % 100)

MonthName ==
    <<"January", "February", "March", "April", "May", "June", "July",
      "August", "September", "October", "November", "December">>

\* strftime('%Y-%m-%d')
Ymd(n) ==
    FourDigits(DateOf(n).y) \o <<"-">> \o TwoDigits(DateOf(n).m)
        \o <<"-">> \o TwoDigits(DateOf(n).d)

\* strftime('%B %d, %Y')
LongDate(n) ==
    <<MonthName[DateOf(n).m], " ">> \o TwoDigits(DateOf(n).d)
        \o <<",", " ">> \o FourDigits(DateOf(n).y)

(***************************************************************************)
(* generate_blog_post, lines 97-149.  The post is a sequence of blocks:    *)
(* the header, one section per article, the footer.                        *)
(***************************************************************************)
BusinessNews == <<"Business News">>

\* Lines 115-128: the numbered section of article a (i counts from 1).
Section(i, a) ==
    [block |-> "section", number |-> i, title |-> a.title,
     summary |-> a.summary,
     categories |-> IF a.categories # <<>> THEN a.categories ELSE BusinessNews,
     link |-> a.link]

\* generate_blog_post(feed_data) on day n; feed_data is None or Some(dict).
generate_blog_post(data, n) ==
    IF ~data.some \/ data.v.articles = <<>>
    THEN <<[block |-> "No articles available for summary."]>>
    ELSE <<[block |-> "header", date |-> LongDate(n)]>>
             \o [i \in 1..Len(data.v.articles) |-> Section(i, data.v.articles[i])]
             \o <<[block |-> "footer", updated |-> Ymd(n)]>>

(***************************************************************************)
(* Files.  open(path, 'w') truncates the file as it opens it; the content  *)
(* reaches the file when it is written and the file is closed.             *)
(***************************************************************************)

\* What the file system does to one write of content: it succeeds, the open
\* fails (nothing is touched), or the write fails after the first cut lines.
IoOutcomes(content) ==
    {[kind |-> "ok", cut |-> Len(content)], [kind |-> "open_fails", cut |-> 0]}
        \cup {[kind |-> "write_fails", cut |-> k] : k \in 0..(Len(content) - 1)}

\* A variant that opens the file for appending.
WriteTextAppending(file, content, io) ==
    CASE io.kind = "open_fails" -> [file |-> file, raised |-> TRUE]
      [] io.kind = "write_fails" ->
             [file |-> Some(Get(file, <<>>) \o SubSeq(content, 1, io.cut)),
              raised |-> TRUE]
      [] OTHER -> [file |-> Some(Get(file, <<>>) \o content), raised |-> FALSE]

\* with open(path, 'w', encoding='utf-8') as f: f.write(content), on a file
\* that is None (absent) or Some(old content).
WriteText(file, content, io) ==
    CASE io.kind = "open_fails" -> [file |-> file, raised |-> TRUE]
      [] io.kind = "write_fails" ->
             [file |-> Some(SubSeq(content, 1, io.cut)), raised |-> TRUE]
      [] OTHER -> [file |-> Some(content), raised |-> FALSE]

\* self.output_dir, line 25.
output_dir == <<"summaries">>

\* os.path.join(a, b)
PathJoin(a, b) ==
    IF b # <<>> /\ Head(b) = "/" THEN b
    ELSE IF a = <<>> \/ a[Len(a)] = "/" THEN a \o b
    ELSE a \o <<"/">> \o b

\* os.path.basename(p): what follows the last "/".
Basename(p) ==
    LET slashes == {k \in 1..Len(p) : p[k] = "/"}
    IN  IF slashes = {} THEN p ELSE SubSeq(p, Max(slashes) + 1, Len(p))

\* A variant that formats the date day first.
DefaultFilenameDayFirst(n) ==
    <<"cityam", "_summary_">> \o TwoDigits(DateOf(n).d) \o <<"-">>
        \o TwoDigits(DateOf(n).m) \o <<"-">> \o FourDigits(DateOf(n).y)
        \o <<".md">>

\* Lines 153-155: the file name used when none is given.
DefaultFilename(n) == <<"cityam", "_summary_">> \o Ymd(n) \o <<".md">>

FileAt(fs, path) == IF path \in DOMAIN fs THEN Some(fs[path]) ELSE None

\* save_blog_post(content, filename) on day n with the directory fs: the
\* directory afterwards, whether an exception left the method, the path
\* returned.
save_blog_post(fs, content, name, n, io) ==
    LET fname == IF ~name.some \/ name.v = <<>> THEN DefaultFilename(n)
                 ELSE name.v
        filepath == PathJoin(output_dir, fname)
        w == WriteText(FileAt(fs, filepath), content, io)
    IN  [files |-> IF w.file.some THEN (filepath :> w.file.v) @@ fs ELSE fs,
         raised |-> w.raised,
         ret |-> IF w.raised THEN None ELSE Some(filepath)]

\* Lines 171-195: the README text for the artifact new_filename on day n.
ReadmeContent(new_filename, n) ==
    << [block |-> "intro"],
       [block |-> "latest", text |-> Ymd(n) \o <<" Summary">>,
        target |-> <<"summaries", "/">> \o Basename(new_filename)],
       [block |-> "about", target |-> <<"https://www.cityam.com">>],
       [block |-> "archive", target |-> <<"summaries", "/">>],
       [block |-> "how it works"] >>

\* A variant that adds the new text to what README.md holds.
update_index_appending(idx, new_filename, n, io) ==
    LET w == WriteText(idx, ReadmeContent(new_filename, n), io)
    IN  [index |-> IF w.raised THEN w.file
                   ELSE Some(Get(idx, <<>>) \o ReadmeContent(new_filename, n)),
         raised |-> w.raised]

\* update_index(new_filename) on day n with README.md being idx.
update_index(idx, new_filename, n, io) ==
    LET w == WriteText(idx, ReadmeContent(new_filename, n), io)
    IN  [index |-> w.file, raised |-> w.raised]

(***************************************************************************)
(* run_daily_extraction and main, lines 202-235, one action per statement  *)
(* of the try block, and the methods called directly by another caller.    *)
(***************************************************************************)
MaxRuns == 1
MaxCalls == 2
MaxDay == 2

\* max_articles as run_daily_extraction passes it, line 210.
RunMaxArticles == 5

Banner == "City A.M. Daily Content Extraction"
FailedLine == "Failed to extract content from RSS feed"
ErrorLine == "Error during extraction"
SuccessLine == "Daily extraction completed successfully!"

\* What feedparser.parse can answer: an exception, or a parsed feed with or
\* without the bozo flag and with zero or more entries.
SysEntry1 ==
    [title |-> Some(<<"<", "b", ">", "A", "<", "/", "b", ">">>),
     summary |-> Some(<<"x", " ", "&", "a", "m", "p", ";", " ", "y">>),
     description |-> None, link |-> Some(<<"u", "1">>), published |-> None,
     author |-> None, tags |-> Some(<<"Markets">>)]

SysEntry2 ==
    [title |-> None, summary |-> None, description |-> Some(<<"d">>),
     link |-> None, published |-> None, author |-> None, tags |-> None]

SysNets ==
    { NetError, ParsedFeed(FALSE, <<>>), ParsedFeed(TRUE, <<>>),
      ParsedFeed(FALSE, <<SysEntry1>>), ParsedFeed(TRUE, <<SysEntry1>>),
      ParsedFeed(FALSE, <<SysEntry2, SysEntry1>>) }

Labels == {"news", "business", "sport", ""}

\* README.md as a checkout may hold it before the first run: written by
\* hand, or by the run of the day before.
OldReadme == <<[block |-> "handwritten"]>>
EarlierReadme == ReadmeContent(PathJoin(output_dir, DefaultFilename(0)), 0)

\* The summaries directory after the run of the day before.
EarlierArtifact ==
    PathJoin(output_dir, DefaultFilename(0)) :>
        generate_blog_post(Some(FeedData(ParsedFeed(FALSE, <<SysEntry2>>),
                                         RunMaxArticles)), 0)

DirectContents ==
    {<<[block |-> "draft"], [block |-> "notes"]>>, generate_blog_post(None, 1)}

DirectNames == {None, Some(<<>>), Some(<<"custom", ".md">>)}

\* The state after construction (lines 17-26: the summaries directory
\* exists), on a checkout that earlier runs may have written to.
InitSystem ==
    /\ phase = "input"
    /\ text = None
    /\ cleaned = <<>>
    /\ feed = None
    /\ max_articles = 0
    /\ result = None
    /\ now = 1
    /\ files \in {<<>>, EarlierArtifact}
    /\ index \in {None, Some(OldReadme), Some(EarlierReadme)}
    /\ pc = "idle"
    /\ feed_data = None
    /\ blog_content = <<>>
    /\ filename = None
    /\ exit_code = None
    /\ stdout = <<>>
    /\ steps = <<>>
    /\ fs0 = <<files, index>>
    /\ last_extract = None
    /\ last_save = None
    /\ prev_save = None
    /\ last_index = None
    /\ ops = 0

ExtractRecord(feed_name, n, net, r) ==
    Some([feed_name |-> feed_name, max_articles |-> n, net |-> net,
          raised |-> r.raised, ret |-> r.ret, fetched |-> r.fetched])

SaveRecord(content, name, r) ==
    Some([content |-> content, name |-> name, day |-> now,
          raised |-> r.raised, ret |-> r.ret,
          nfiles |-> Cardinality(DOMAIN r.files),
          stored |-> IF r.ret.some THEN FileAt(r.files, r.ret.v) ELSE None])

IndexRecord(path, r) ==
    Some([path |-> path, day |-> now, raised |-> r.raised,
          before |-> index, after |-> r.index])

\* A variant whose except branch prints the line and returns.
Exit1Swallowed(line) ==
    /\ stdout' = Append(stdout, line)
    /\ exit_code' = Some(0)
    /\ pc' = "exited"

\* The except branch, lines 228-230: the failure line is printed and
\* sys.exit(1) ends the process with exit code 1.
Exit1(line) ==
    /\ stdout' = Append(stdout, line)
    /\ exit_code' = Some(1)
    /\ pc' = "exited"

\* Lines 204-214: the banner, extract_articles('news', max_articles=5) and
\* the check of its result.
RunFetch ==
    /\ mode = "run"
    /\ pc = "idle"
    /\ ops < MaxRuns
    /\ \E net \in SysNets :
          LET r == extract_articles("news", RunMaxArticles, net)
          IN  /\ last_extract' = ExtractRecord("news", RunMaxArticles, net, r)
              /\ IF r.raised # "none"
                 THEN /\ stdout' = <<Banner>> \o r.printed \o <<ErrorLine>>
                      /\ exit_code' = Some(1)
                      /\ pc' = "exited"
                      /\ feed_data' = None
                 ELSE IF ~r.ret.some
                 THEN /\ stdout' = <<Banner>> \o r.printed \o <<FailedLine>>
                      /\ exit_code' = Some(1)
                      /\ pc' = "exited"
                      /\ feed_data' = r.ret
                 ELSE /\ stdout' = <<Banner>> \o r.printed
                      /\ exit_code' = None
                      /\ pc' = "fetched"
                      /\ feed_data' = r.ret
    /\ steps' = <<"extract_articles">>
    /\ fs0' = <<files, index>>
    /\ blog_content' = <<>>
    /\ filename' = None
    /\ ops' = ops + 1
    /\ UNCHANGED <<mode, pureVars, now, files, index, last_save, prev_save,
                   last_index>>

\* Line 217: generate_blog_post(feed_data); an exception raised while the
\* post is built (MemoryError, for one) goes to the except branch.
RunRender ==
    /\ mode = "run"
    /\ pc = "fetched"
    /\ steps' = Append(steps, "generate_blog_post")
    /\ \E raises \in BOOLEAN :
          IF raises
          THEN /\ Exit1(ErrorLine)
               /\ UNCHANGED blog_content
          ELSE /\ blog_content' = generate_blog_post(feed_data, now)
               /\ pc' = "rendered"
               /\ UNCHANGED <<stdout, exit_code>>
    /\ UNCHANGED <<mode, pureVars, now, files, index, feed_data, filename,
                   fs0, last_extract, last_save, prev_save, last_index, ops>>

\* Line 220: filename = self.save_blog_post(blog_content).
RunSave ==
    /\ mode = "run"
    /\ pc = "rendered"
    /\ steps' = Append(steps, "save_blog_post")
    /\ \E io \in IoOutcomes(blog_content) :
          LET r == save_blog_post(files, blog_content, None, now, io)
          IN  /\ files' = r.files
              /\ last_save' = SaveRecord(blog_content, None, r)
              /\ IF r.raised
                 THEN /\ Exit1(ErrorLine)
                      /\ UNCHANGED filename
                 ELSE /\ filename' = r.ret
                      /\ pc' = "saved"
                      /\ UNCHANGED <<stdout, exit_code>>
    /\ UNCHANGED <<mode, pureVars, now, index, feed_data, blog_content, fs0,
                   last_extract, prev_save, last_index, ops>>

\* Lines 223-226: self.update_index(filename), the success line, return
\* True; main returns and the process ends with exit code 0.
RunUpdateIndex ==
    /\ mode = "run"
    /\ pc = "saved"
    /\ steps' = Append(steps, "update_index")
    /\ \E io \in IoOutcomes(ReadmeContent(filename.v, now)) :
          LET r == update_index(index, filename.v, now, io)
          IN  /\ index' = r.index
              /\ last_index' = IndexRecord(filename.v, r)
              /\ IF r.raised
                 THEN Exit1(ErrorLine)
                 ELSE /\ stdout' = Append(stdout, SuccessLine)
                      /\ exit_code' = Some(0)
                      /\ pc' = "exited"
    /\ UNCHANGED <<mode, pureVars, now, files, feed_data, blog_content,
                   filename, fs0, last_extract, last_save, prev_save, ops>>

\* Lines 232-235 and 17-26: the next invocation is a new process with a new
\* extractor; the summaries directory already exists.
Construct ==
    /\ mode = "run"
    /\ pc = "exited"
    /\ pc' = "idle"
    /\ feed_data' = None
    /\ blog_content' = <<>>
    /\ filename' = None
    /\ exit_code' = None
    /\ stdout' = <<>>
    /\ steps' = <<>>
    /\ fs0' = <<files, index>>
    /\ last_extract' = None
    /\ last_save' = None
    /\ last_index' = None
    /\ UNCHANGED <<mode, pureVars, now, files, index, prev_save, ops>>

\* A caller other than run_daily_extraction calls extract_articles (with the
\* default max_articles, which is also what run_daily_extraction passes).
CallExtract ==
    /\ mode = "extract"
    /\ pc = "idle"
    /\ ops < MaxCalls
    /\ \E feed_name \in Labels, net \in SysNets :
          last_extract' =
              ExtractRecord(feed_name, RunMaxArticles, net,
                            extract_articles(feed_name, RunMaxArticles, net))
    /\ ops' = ops + 1
    /\ UNCHANGED <<mode, pureVars, now, files, index, pc, feed_data,
                   blog_content, filename, exit_code, stdout, steps, fs0,
                   last_save, prev_save, last_index>>

\* A caller other than run_daily_extraction calls save_blog_post.
CallSave ==
    /\ mode = "save"
    /\ pc = "idle"
    /\ ops < MaxCalls
    /\ \E content \in DirectContents, name \in DirectNames :
          \E io \in IoOutcomes(content) :
             LET r == save_blog_post(files, content, name, now, io)
             IN  /\ files' = r.files
                 /\ last_save' = SaveRecord(content, name, r)
                 /\ prev_save' = last_save
    /\ ops' = ops + 1
    /\ UNCHANGED <<mode, pureVars, now, index, pc, feed_data, blog_content,
                   filename, exit_code, stdout, steps, fs0, last_extract,
                   last_index>>

\* Midnight passes: datetime.now() answers the next day from here on.
Tick ==
    /\ mode \in {"run", "extract", "save"}
    /\ now < MaxDay
    /\ now' = now + 1
    /\ UNCHANGED <<mode, pureVars, files, index, pc, feed_data, blog_content,
                   filename, exit_code, stdout, steps, fs0, last_extract,
                   last_save, prev_save, last_index, ops>>

Next ==
    \/ RunFetch
    \/ RunRender
    \/ RunSave
    \/ RunUpdateIndex
    \/ Construct
    \/ Tick

NextExtract ==
    \/ CallExtract
    \/ Tick

NextSave ==
    \/ CallSave
    \/ Tick

vars == <<mode, pureVars, sysVars>>

InitRun == mode = "run" /\ InitSystem

InitExtract == mode = "extract" /\ InitSystem

InitSave == mode = "save" /\ InitSystem /\ index = None

Spec == InitRun /\ [][Next]_vars

SpecExtract == InitExtract /\ [][NextExtract]_vars

SpecSave == InitSave /\ [][NextSave]_vars

SpecClean == InitClean /\ [][NextClean]_vars

SpecSelect == InitSelect /\ [][NextSelect]_vars

(***************************************************************************)
(* The claims.                                                             *)
(***************************************************************************)
AllSteps ==
    <<"extract_articles", "generate_blog_post", "save_blog_post", "update_index">>

InSeq(x, q) == \E k \in 1..Len(q) : q[k] = x

Ran == pc = "exited"

\* The run's fetch found a reachable feed with zero entries.
NoData ==
    /\ last_extract.some
    /\ ~last_extract.v.net.raises
    /\ last_extract.v.net.entries = <<>>

\* C1: a run whose fetch yields zero entries ends with exit code 1 having
\* called neither save_blog_post nor update_index; the summaries directory
\* and the index file are as they were before the run.
C1_NoDataAborts ==
    (Ran /\ NoData) =>
        /\ exit_code = Some(1)
        /\ ~last_extract.v.ret.some
        /\ steps = <<"extract_articles">>
        /\ <<files, index>> = fs0

C1_Witness ==
    /\ Ran
    /\ NoData
    /\ exit_code = Some(1)
    /\ files # <<>>

SaveRaised == last_save.some /\ last_save.v.raised
IndexRaised == last_index.some /\ last_index.v.raised

\* C2: in a run whose fetch returned data, an exception at render, save or
\* update index ends the process with exit code 1 and the success line is
\* never printed; the run prints the success line and ends with exit code 0
\* exactly when render, save and update index all completed, in that order.
C2_ExitCodes ==
    /\ ~Ran => (exit_code = None /\ ~InSeq(SuccessLine, stdout))
    /\ Ran =>
        /\ exit_code \in {Some(0), Some(1)}
        /\ InSeq(SuccessLine, stdout) <=> exit_code = Some(0)
        /\ (InSeq(ErrorLine, stdout) \/ SaveRaised \/ IndexRaised)
               => exit_code = Some(1)
        /\ exit_code = Some(0) =>
               /\ steps = AllSteps
               /\ last_save.some /\ ~last_save.v.raised
               /\ FileAt(files, last_save.v.ret.v) = Some(blog_content)
               /\ last_index.some /\ ~last_index.v.raised
        /\ (steps # AllSteps /\ last_extract.v.ret.some) => exit_code = Some(1)

C2_Witness ==
    /\ Ran
    /\ steps = AllSteps
    /\ last_save.some /\ ~last_save.v.raised
    /\ IndexRaised
    /\ exit_code = Some(1)

\* C3: when save_blog_post succeeded and update_index then failed, at the
\* open or at the write, the artifact is on disk with the full rendered
\* content and the index file is exactly what it was before the run.
C3_IndexUntouchedOnFailure ==
    (Ran /\ last_save.some /\ ~last_save.v.raised /\ IndexRaised) =>
        /\ FileAt(files, last_save.v.ret.v) = Some(blog_content)
        /\ index = fs0[2]

\* C4: for a source label that is no key of the feed map, extract_articles
\* raises the unknown-source error (the ValueError of line 51) to its caller
\* before feedparser.parse is called, and does not return the no-data value
\* in its place.
C4_UnknownSourceRaises ==
    (last_extract.some /\ last_extract.v.feed_name \notin {"news", "business"}) =>
        /\ last_extract.v.raised = "ValueError"
        /\ ~last_extract.v.fetched

C4_Witness ==
    /\ last_extract.some
    /\ last_extract.v.feed_name = "sport"
    /\ last_extract.v.raised = "ValueError"
    /\ ~last_extract.v.net.raises
    /\ last_extract.v.net.entries # <<>>

\* C5: for a recognized label, an exception raised while the feed is
\* retrieved or parsed does not leave extract_articles: it returns the
\* no-data value, and the run ends with exit code 1 and nothing written.  A
\* feed with the bozo flag and at least one entry still yields a result.
C5_FetchErrorsAreCaught ==
    last_extract.some =>
        /\ last_extract.v.raised = "none"
        /\ last_extract.v.net.raises =>
               /\ ~last_extract.v.ret.some
               /\ Ran
               /\ exit_code = Some(1)
               /\ steps = <<"extract_articles">>
               /\ <<files, index>> = fs0
        /\ (~last_extract.v.net.raises /\ last_extract.v.net.bozo
                /\ last_extract.v.net.entries # <<>>) =>
               /\ last_extract.v.ret.some
               /\ last_extract.v.ret.v.articles # <<>>

C5_Witness ==
    /\ last_extract.some
    /\ last_extract.v.net.raises
    /\ Ran
    /\ exit_code = Some(1)
    /\ index # None

\* The ISO date of each day number, written out.
IsoDate(n) ==
    CASE n = 1 -> <<"2", "0", "2", "5", "-", "1", "2", "-", "3", "1">>
      [] n = 2 -> <<"2", "0", "2", "6", "-", "0", "1", "-", "0", "1">>
      [] n = 3 -> <<"2", "0", "2", "6", "-", "0", "1", "-", "0", "2">>
      [] n = 4 -> <<"2", "0", "2", "6", "-", "0", "1", "-", "0", "3">>
      [] OTHER -> <<>>

DefaultSaveDone ==
    /\ last_save.some
    /\ ~last_save.v.name.some
    /\ ~last_save.v.raised

\* C6 as stated: a save with no filename writes
\* {source}_summary_{YYYY-MM-DD}.md, for the source label of the run, in the
\* output directory, and returns its path.
C6_NamedAfterSource ==
    DefaultSaveDone =>
        LET path == <<"summaries", "/", last_extract.v.feed_name, "_summary_">>
                        \o IsoDate(last_save.v.day) \o <<".md">>
        IN  /\ last_save.v.ret = Some(path)
            /\ path \in DOMAIN files

\* C6 as amended: a save with no filename writes
\* cityam_summary_{YYYY-MM-DD}.md, whatever the source label, for the local
\* date of the call, in the output directory; the path returned is the path
\* of that file, which holds the content; a successful run on the news
\* source leaves that file.
C6_NamedCityam ==
    DefaultSaveDone =>
        LET path == <<"summaries", "/", "cityam", "_summary_">>
                        \o IsoDate(last_save.v.day) \o <<".md">>
        IN  /\ last_save.v.ret = Some(path)
            /\ last_save.v.stored = Some(last_save.v.content)
            /\ path \in DOMAIN files
            /\ (Ran /\ exit_code = Some(0)) =>
                   /\ filename = Some(path)
                   /\ files[path] = blog_content

C6_Witness ==
    /\ Ran
    /\ exit_code = Some(0)
    /\ DefaultSaveDone
    /\ last_extract.v.feed_name = "news"
    /\ last_save.v.day = 2

NoName(call) == ~call.name.some \/ call.name.v = <<>>

TwoDefaultSavesSameDay ==
    /\ last_save.some /\ prev_save.some
    /\ NoName(last_save.v) /\ NoName(prev_save.v)
    /\ ~last_save.v.raised /\ ~prev_save.v.raised
    /\ last_save.v.day = prev_save.v.day

\* C7: two calls of save_blog_post on the same day with no filename return
\* the same path, leave as many files in the output directory after the
\* second as after the first, and the file holds exactly the second call's
\* content.
C7_SameDayOverwrites ==
    TwoDefaultSavesSameDay =>
        /\ last_save.v.ret = prev_save.v.ret
        /\ last_save.v.nfiles = prev_save.v.nfiles
        /\ Cardinality(DOMAIN files) = prev_save.v.nfiles
        /\ last_save.v.stored = Some(last_save.v.content)
        /\ FileAt(files, last_save.v.ret.v) = Some(last_save.v.content)

C7_Witness ==
    /\ TwoDefaultSavesSameDay
    /\ last_save.v.content # prev_save.v.content
    /\ Len(prev_save.v.content) > Len(last_save.v.content)

\* The targets of the links of an index text that point at a file of the
\* summaries directory.
ArtifactLinks(doc) ==
    LET at == {k \in 1..Len(doc) :
                  /\ "target" \in DOMAIN doc[k]
                  /\ Len(doc[k].target) > 2
                  /\ SubSeq(doc[k].target, 1, 2) = <<"summaries", "/">>}
    IN  {doc[k].target : k \in at}

\* C8: after a successful update_index the index file references only the
\* latest artifact: its text is determined by the file name of the path and
\* the date, it holds exactly one artifact link, which in a run is the
\* relative path of the artifact written in that run, and nothing of the
\* earlier index text is left.
C8_IndexIsRegenerated ==
    (last_index.some /\ ~last_index.v.raised) =>
        /\ index.some
        /\ Len(index.v) = Len(ReadmeContent(<<>>, 0))
        /\ ArtifactLinks(index.v) =
               {<<"summaries", "/">> \o Basename(last_index.v.path)}
        /\ index.v[2].text = IsoDate(last_index.v.day) \o <<" Summary">>
        /\ \A idx \in {None, Some(OldReadme), Some(EarlierReadme)} :
               update_index(idx, last_index.v.path, last_index.v.day,
                            [kind |-> "ok", cut |-> 0]).index = index
        /\ (last_save.some /\ last_save.v.ret.some) =>
               /\ ArtifactLinks(index.v) = {last_save.v.ret.v}
               /\ last_save.v.ret.v \in DOMAIN files

C8_Witness ==
    /\ Ran
    /\ exit_code = Some(0)
    /\ fs0[2] = Some(EarlierReadme)
    /\ last_index.some /\ ~last_index.v.raised
    /\ last_index.v.day = 2
    /\ last_save.v.day = 1

\* A "<" with a ">" somewhere behind it.
HasTag(t) == \E i, j \in 1..Len(t) : i < j /\ t[i] = "<" /\ t[j] = ">"

\* An "&" followed by the name of a character reference and a ";".
HasEntity(t) ==
    \E i \in 1..Len(t) : \E r \in DOMAIN Html5 :
        /\ t[i] = "&"
        /\ r[Len(r)] = ";"
        /\ i + Len(r) <= Len(t)
        /\ SubSeq(t, i + 1, i + Len(r)) = r

Collapsed(t) ==
    /\ \A i \in 1..(Len(t) - 1) : ~(t[i] \in Whitespace /\ t[i + 1] \in Whitespace)
    /\ t # <<>> => (t[1] \notin Whitespace /\ t[Len(t)] \notin Whitespace)

\* C9: for every input, what clean_html returns holds no tag sequence and
\* no entity code, no two adjacent whitespace characters and no leading or
\* trailing whitespace; for an empty or absent input it is the empty string.
C9_CleanOutput ==
    phase = "done" =>
        /\ ~HasTag(cleaned)
        /\ ~HasEntity(cleaned)
        /\ Collapsed(cleaned)
        /\ (~text.some \/ text.v = <<>>) => cleaned = <<>>

RawSummary(entry) == Get(entry.summary, Get(entry.description, <<>>))

EndsWithEllipsis(t) ==
    Len(t) >= 3 /\ SubSeq(t, Len(t) - 2, Len(t)) = <<".", ".", ".">>

\* C10: for a parsed feed with at least one entry and a maximum N > 0, the
\* articles returned are min(N, number of entries) many, the i-th built from
\* the i-th entry, and every summary is at most 300 characters long: a
\* sanitized summary of at most 300 characters is kept, a longer one becomes
\* exactly 300 characters that end in '...'.
C10_SelectionAndLimit ==
    (phase = "done" /\ mode = "select" /\ feed.entries # <<>>) =>
        /\ result.some
        /\ Len(result.v.articles) =
               (IF max_articles < Len(feed.entries) THEN max_articles
                ELSE Len(feed.entries))
        /\ \A i \in 1..Len(result.v.articles) :
               LET a == result.v.articles[i]
                   clean == clean_html(Some(RawSummary(feed.entries[i])))
               IN  /\ a.title = clean_html(Some(Get(feed.entries[i].title, NoTitle)))
                   /\ Len(a.summary) <= 300
                   /\ Len(clean) <= 300 => a.summary = clean
                   /\ Len(clean) > 300 =>
                          /\ Len(a.summary) = 300
                          /\ EndsWithEllipsis(a.summary)
                          /\ SubSeq(a.summary, 1, 297) = SubSeq(clean, 1, 297)

C10_Witness ==
    /\ phase = "done"
    /\ mode = "select"
    /\ Len(feed.entries) > max_articles
    /\ max_articles >= 2
    /\ result.some
    /\ Len(result.v.articles[1].summary) = 300
    /\ EndsWithEllipsis(result.v.articles[1].summary)
    /\ Len(result.v.articles[2].summary) < 300

====
